---- MODULE Spec2Model ----
(***************************************************************************)
(* Model of the view-window controller VirtualRepeat                       *)
(* (src/src/virtual-repeat.ts) of aurelia-ui-virtualization.               *)
(*                                                                         *)
(* The controller is single threaded.  A step of the model is one turn of  *)
(* the event loop that reaches the controller: a lifecycle call, a scroll  *)
(* notification, one microtask of the task queue, one animation-frame      *)
(* callback, one timer tick, one observer notification, or the settling of *)
(* a promise returned by the load-more handler.                            *)
(*                                                                         *)
(* The collection strategy (array-virtual-repeat-strategy.ts) is not part  *)
(* of the sources at hand; its operations are modelled from the contract   *)
(* of section 4.2 of the specification and are named as in the calls the   *)
(* controller makes.                                                       *)
(***************************************************************************)
EXTENDS Integers, Sequences, FiniteSets, TLC

\* ------------------------------------------------------------------ bounds
MaxItems == 4        \* largest collection size
MaxScrollStep == 2   \* the scroller is moved to scrollTop 0, 3, ..., 3 * MaxScrollStep
MaxFrames == 2       \* animation-frame callbacks waiting at one time
MaxPromises == 1     \* load-more promises pending at one time
MaxSplice == 1       \* items one mutation adds or removes

\* ------------------------------------------------------- program constants
EdgeDistance == 5    \* this.edgeDistance = 5

\* The sizes the layout can report.
ItemOuterHeights == {0, 2}      \* calcOuterHeight(first view): 0 = not measurable
ViewportHeights == {4, 6}       \* height of the scroller
Distances == {0, 2}             \* distance of the top buffer to the top of the document

ScrollTops == {3 * k : k \in 0..MaxScrollStep}
\* the layout a run starts from: the scroller shows two items of the full list
InitialViewportHeight == CHOOSE vh \in ViewportHeights : \A x \in ViewportHeights : vh <= x
InitialItemOuterHeight == CHOOSE h \in ItemOuterHeights : \A x \in ItemOuterHeights : h >= x

\* The layout of the transition scenario: a long list in a scroller that shows
\* twenty items, scrolled to its top, by five items, to item 500 and to its end.
Scenario ==
  [itemCount |-> 1000, itemHeight |-> 20, height |-> 400,
   scrollTops |-> {0, 100, 10000, 19600}]

\* The source expression: the bound array itself ("direct"), the array behind
\* a value converter or binding behavior ("inner"), or the bound array in a
\* one-time binding ("oneTime").
SourceKinds == {"direct", "inner", "oneTime"}

\* The way the environment changes while the controller lives: one behaviour
\* takes its changes from one of these.
Changes == {"mutation", "replacement", "resize", "layout"}
NoChanges == "none"

\* The way the infinite-scroll-next attribute of the first view resolves: not
\* at all, to the name of a function of the binding context, to a bound
\* expression, or to neither ("notFunction").
ScrollNextKinds == {"absent", "function", "expression", "notFunction"}

VARIABLES
  repeat,      \* the fields of the VirtualRepeat instance
  views,       \* viewSlot.children: the $index of each rendered view, in slot order
  dom,         \* the scroller, the layout and the bound array, as the platform holds them
  platform,    \* listeners, intervals, observers and subscriptions installed
  taskQueue,   \* TaskQueue: microtasks queued, oldest first
  flushing,    \* TRUE while the task queue is being flushed
  frames,      \* requestAnimationFrame callbacks for the next frame, oldest first
  frameBatch,  \* callbacks of the frame that is running
  promises,    \* load-more promises not yet settled
  hist         \* what the last step did (observation only)

vars == <<repeat, views, dom, platform, taskQueue, flushing, frames, frameBatch, promises, hist>>

\* ----------------------------------------------------------------- helpers
Math_max(a, b) == IF a >= b THEN a ELSE b
Math_min(a, b) == IF a <= b THEN a ELSE b
\* Math.floor(a / b) for a >= 0, b > 0
Math_floor(a, b) == a \div b
\* the least n with n * b >= a
CeilDiv(a, b) == (a + b - 1) \div b

\* i, i+1, ..., i+n-1
Consecutive(i, n) == [k \in 1..n |-> i + k - 1]

undefinedInfo == [scroller |-> "undefined", scrollTop |-> 0]
undefinedRect == [id |-> 0, height |-> 0]

\* The whole state as one value, so that a method is an operator from state to
\* state and a call is an application.
Cur ==
  [repeat |-> repeat, views |-> views, dom |-> dom, platform |-> platform,
   taskQueue |-> taskQueue, frames |-> frames, promises |-> promises, hist |-> hist]

Become(s) ==
  /\ repeat' = s.repeat
  /\ views' = s.views
  /\ dom' = s.dom
  /\ platform' = s.platform
  /\ taskQueue' = s.taskQueue
  /\ frames' = s.frames
  /\ promises' = s.promises
  /\ hist' = s.hist

\* ------------------------------------------------------------ observation
\* What the last step did: which handler ran, the branch _handleScroll took with
\* the two ranges, the views it moved, the rebuilds it asked for, the load-more
\* callbacks it scheduled, the handler invocations it made, whether it invoked
\* the handler while the promise of an earlier invocation was pending, the
\* error it threw, the evaluations of the source expression it made and the
\* recomputes (itemsChanged past its guard) it ran.
StepHist(op) ==
  [op |-> op, case |-> "none", moved |-> 0, remeasure |-> 0,
   oldStart |-> 0, oldEnd |-> 0, newStart |-> 0, newEnd |-> 0,
   scheduled |-> 0, invoked |-> 0, overlap |-> FALSE,
   error |-> "none", evaluated |-> 0, recompute |-> 0]

Begin(s, op) == [s EXCEPT !.hist = StepHist(op)]

\* The window fields a pending callback must leave alone after a detach.
Window(r, v) ==
  [first |-> r._first, viewsLength |-> r._viewsLength, top |-> r._topBufferHeight,
   bottom |-> r._bottomBufferHeight, itemHeight |-> r.itemHeight, views |-> v]

\* ------------------------------------------------- the view slot (IViewSlot)
viewCount(s) == Len(s.views)
\* _firstViewIndex / _lastViewIndex: the $index of the first / last view, -1 without views
_firstViewIndex(s) == IF Len(s.views) = 0 THEN -1 ELSE s.views[1]
_lastViewIndex(s) == IF Len(s.views) = 0 THEN -1 ELSE s.views[Len(s.views)]
removeAllViews(s) == [s EXCEPT !.views = << >>]

\* items.length of the bound array
itemCount(s) == s.dom.arrayLength

\* getScroller / getScrollerInfo: a snapshot of the scroller
getScroller(s) == IF s.repeat._fixedHeightContainer THEN "container" ELSE "document"
getScrollerInfo(s) ==
  [scroller |-> getScroller(s), scrollTop |-> s.dom.scrollTop]

\* revertScrollCheckGuard and the other callbacks handed to requestAnimationFrame
FrameCallback(type, nearTop, nearBottom, rect) ==
  [type |-> type, isNearTop |-> nearTop, isNearBottom |-> nearBottom, rect |-> rect]
requestAnimationFrame(s, cb) == [s EXCEPT !.frames = Append(@, cb)]

\* a microtask handed to taskQueue.queueMicroTask
MicroTask(type, curr, splice) == [type |-> type, curr |-> curr, splice |-> splice]
noSplice == [index |-> 0, addedCount |-> 0, removedCount |-> 0]
queueMicroTask(s, task) == [s EXCEPT !.taskQueue = Append(@, task)]

\* _updateBufferElements(skipUpdate): writes the buffer heights to the buffer
\* elements; with skipUpdate it blocks scroll handling until the next frame.
_updateBufferElements(s, skipUpdate) ==
  IF skipUpdate
    THEN requestAnimationFrame([s EXCEPT !.repeat._ticking = TRUE],
           FrameCallback("revertScrollCheckGuard", FALSE, FALSE, undefinedRect))
    ELSE s

\* A variant of _resetCalculation that leaves the height of the bottom buffer
\* as it was; the property of the heights tells it from _resetCalculation.
_resetCalculationKeepsBottomBuffer(s) ==
  _updateBufferElements(
    [s EXCEPT !.repeat._first = 0, !.repeat._viewsLength = 0,
              !.repeat._topBufferHeight = 0,
              !.repeat.itemHeight = 0, !.repeat.elementsInView = 0,
              !.repeat._ignoreMutation = FALSE, !.repeat._handlingMutations = FALSE,
              !.repeat._ticking = FALSE, !.repeat._isAtTop = TRUE],
    TRUE)

\* _resetCalculation
_resetCalculation(s) ==
  _updateBufferElements(
    [s EXCEPT !.repeat._first = 0, !.repeat._viewsLength = 0,
              !.repeat._topBufferHeight = 0, !.repeat._bottomBufferHeight = 0,
              !.repeat.itemHeight = 0, !.repeat.elementsInView = 0,
              !.repeat._ignoreMutation = FALSE, !.repeat._handlingMutations = FALSE,
              !.repeat._ticking = FALSE, !.repeat._isAtTop = TRUE],
    TRUE)

\* _unsubscribeCollection
_unsubscribeCollection(s) ==
  IF s.repeat.collectionObserver # "null"
    THEN [s EXCEPT !.platform.subscriptions = @ \ {s.repeat.callContext},
                   !.repeat.collectionObserver = "null",
                   !.repeat.callContext = "null"]
    ELSE s

\* _observeCollection: subscribe to the bound array
_observeCollection(s) ==
  [s EXCEPT !.repeat.callContext = "handleCollectionMutated",
            !.repeat.collectionObserver = "array",
            !.platform.subscriptions = @ \cup {"handleCollectionMutated"}]

\* _observeInnerCollection: subscribes to the array behind a converter or a
\* behavior, and tells whether it did; a source expression that wraps nothing
\* has no inner collection.
_observesInnerCollection(s) == s.dom.source = "inner"
_observeInnerCollection(s) ==
  IF _observesInnerCollection(s)
    THEN [s EXCEPT !.repeat.callContext = "handleInnerCollectionMutated",
                   !.repeat.collectionObserver = "array",
                   !.platform.subscriptions = @ \cup {"handleInnerCollectionMutated"}]
    ELSE s

\* strategyLocator.getStrategy(items): no strategy for a value that is not
\* iterable
getStrategy(items) == IF items = "value" THEN "null" ELSE "array"

\* ------------------------------------------- the collection strategy (4.2)
\* isNearTop / isNearBottom
isNearTop(s, index) == index <= s.repeat.edgeDistance
isNearBottom(s, index) == index >= itemCount(s) - 1 - s.repeat.edgeDistance

\* scrollTop relative to the top of the list
RelativeScrollTop(s, info) ==
  IF info.scroller = "document"
    THEN Math_max(0, info.scrollTop - s.repeat.distanceToTop)
    ELSE info.scrollTop

\* getViewRange (visibleRange): <<start, end>>
getViewRange(s, info) ==
  LET h == s.repeat.itemHeight
      m == s.repeat.elementsInView
      raw == IF h > 0 THEN Math_floor(RelativeScrollTop(s, info), h) ELSE 0
      start == Math_max(0, Math_min(raw, itemCount(s) - m))
  IN <<start, Math_min(start + m - 1, itemCount(s) - 1)>>

\* The buffer heights of a window that starts at firstIndex.
WithBuffers(s, firstIndex) ==
  LET h == s.repeat.itemHeight
  IN [s EXCEPT !.repeat._first = firstIndex,
               !.repeat._isAtTop = (firstIndex = 0),
               !.repeat._topBufferHeight = firstIndex * h,
               !.repeat._bottomBufferHeight =
                  Math_max(0, itemCount(s) - firstIndex - s.repeat._viewsLength) * h]

\* updateBuffers
updateBuffers(s, firstIndex) == WithBuffers(s, firstIndex)

\* The signals of initCalculation (sizeForSource).
initCalculationSignals(s) ==
  IF itemCount(s) = 0 THEN {"reset"}
  ELSE IF s.dom.itemOuterHeight = 0 THEN {}
  ELSE {"has_sizing", "observe_scroller"}

\* initCalculation: measures one item and sizes the window.
initCalculation(s) ==
  IF initCalculationSignals(s) = {"has_sizing", "observe_scroller"}
    THEN LET n == CeilDiv(s.dom.height, s.dom.itemOuterHeight)
         IN [s EXCEPT !.repeat.itemHeight = s.dom.itemOuterHeight,
                      !.repeat.elementsInView = n,
                      !.repeat._viewsLength = n]
    ELSE s

\* instanceChanged (instantiateWindow): the window of views from firstIndex on,
\* moved up when it would pass the end of the collection.
instanceChanged(s, firstIndex) ==
  LET count == Math_min(s.repeat._viewsLength, itemCount(s))
      first == Math_max(0, Math_min(firstIndex, itemCount(s) - count))
  IN [WithBuffers(s, first) EXCEPT !.views = Consecutive(first, count)]

\* remeasure: the visible range derived anew from the scroller, and the views
\* rebuilt at that range.
remeasure(s) ==
  LET range == getViewRange(s, getScrollerInfo(s))
  IN [WithBuffers(s, range[1]) EXCEPT
        !.views = Consecutive(range[1], range[2] - range[1] + 1),
        !.hist.remeasure = @ + 1]

\* createFirstItem: a view for the first item, to measure it.
createFirstItem(s) == [s EXCEPT !.views = Append(@, 0)]

\* A variant of ScrollCase that tests the overlapping cases before the pinned
\* ones; the transition properties below tell it from ScrollCase.
ScrollCaseOverlapFirst(os, oe, ns, ne) ==
  IF ns > os /\ oe >= ns /\ ne >= oe THEN "down"
  ELSE IF os > ns /\ os <= ne /\ oe >= ne THEN "up"
  ELSE IF ns >= os /\ oe = ne THEN "pinned_bottom"
  ELSE IF ne = oe /\ oe >= ne THEN "pinned_top"
  ELSE IF oe < ns \/ os > ne THEN "jump"
  ELSE "unclassified"

\* ---------------------------------------------------- scroll handling
\* The branch of _handleScroll taken for the old range [os, oe] and the new
\* range [ns, ne], by the order of its conditions.
ScrollCase(os, oe, ns, ne) ==
  IF (ns >= os /\ oe = ne) \/ (ne = oe /\ oe >= ne)
    THEN IF ns >= os /\ oe = ne THEN "pinned_bottom" ELSE "pinned_top"
  ELSE IF ns > os /\ oe >= ns /\ ne >= oe THEN "down"
  ELSE IF os > ns /\ os <= ne /\ oe >= ne THEN "up"
  ELSE IF oe < ns \/ os > ne THEN "jump"
  ELSE "unclassified"

\* rebindAndMoveView, as _moveViews uses it: towards the top the last view
\* becomes the first, towards the bottom the first view becomes the last, and
\* carries the index given.
\* Variants of the two loops that hand the index on before stepping it
\* (startIndex--, lastIndex++); the properties of the overlapping cases tell
\* them from MoveUp and MoveDown.
RECURSIVE MoveUpPostDecrement(_, _, _)
MoveUpPostDecrement(v, startIndex, n) ==
  IF n = 0 \/ Len(v) = 0 THEN v
  ELSE MoveUpPostDecrement(<<startIndex>> \o SubSeq(v, 1, Len(v) - 1), startIndex - 1, n - 1)

RECURSIVE MoveDownPostIncrement(_, _, _)
MoveDownPostIncrement(v, lastIndex, n) ==
  IF n = 0 \/ Len(v) = 0 THEN v
  ELSE MoveDownPostIncrement(Tail(v) \o <<lastIndex>>, lastIndex + 1, n - 1)

RECURSIVE MoveUp(_, _, _)
MoveUp(v, startIndex, n) ==
  IF n = 0 \/ Len(v) = 0 THEN v
  ELSE MoveUp(<<startIndex - 1>> \o SubSeq(v, 1, Len(v) - 1), startIndex - 1, n - 1)

RECURSIVE MoveDown(_, _, _)
MoveDown(v, lastIndex, n) ==
  IF n = 0 \/ Len(v) = 0 THEN v
  ELSE MoveDown(Tail(v) \o <<lastIndex + 1>>, lastIndex + 1, n - 1)

\* _moveViews
_moveViews(s, viewsCount, direction) ==
  [s EXCEPT !.views = IF direction = -1
                        THEN MoveUp(s.views, _firstViewIndex(s), viewsCount)
                        ELSE MoveDown(s.views, _lastViewIndex(s), viewsCount),
            !.hist.moved = @ + viewsCount]

\* _getMore: schedules executeGetMore for the next frame.  The callback hands
\* topIndex on to the handler and does nothing else with it; the model keeps
\* the two edge flags only.
_getMore(s, topIndex, nearTop, nearBottom) ==
  IF (nearTop \/ nearBottom) /\ ~s.repeat._calledGetMore
    THEN [requestAnimationFrame(s,
            FrameCallback("executeGetMore", nearTop, nearBottom, undefinedRect))
          EXCEPT !.hist.scheduled = @ + 1]
    ELSE s

\* A variant of ShouldCallScrollNext that signals in the pinned cases without
\* asking the strategy about the edge; the property of the pinned cases tells
\* it from ShouldCallScrollNext.
ShouldCallScrollNextWhenPinned(s, case, oe, ns, ne) ==
  CASE case = "pinned_bottom" -> 1
    [] case = "pinned_top" -> -1
    [] case = "down" -> 1
    [] case = "up" -> -1
    [] case = "jump" -> IF oe < ns
                          THEN (IF isNearBottom(s, ne) THEN 1 ELSE 0)
                          ELSE (IF isNearTop(s, ns) THEN -1 ELSE 0)
    [] OTHER -> 0

\* should_call_scroll_next of _handleScroll for the branch taken
ShouldCallScrollNext(s, case, oe, ns, ne) ==
  CASE case = "pinned_bottom" -> IF isNearBottom(s, ne) THEN 1 ELSE 0
    [] case = "pinned_top" -> IF isNearTop(s, ns) THEN -1 ELSE 0
    [] case = "down" -> 1
    [] case = "up" -> -1
    [] case = "jump" -> IF oe < ns
                          THEN (IF isNearBottom(s, ne) THEN 1 ELSE 0)
                          ELSE (IF isNearTop(s, ns) THEN -1 ELSE 0)
    [] OTHER -> 0

\* A variant of UpdateViews that leaves the views of a disjoint jump as they
\* are; the property of the disjoint jump tells it from UpdateViews.
UpdateViewsKeepsOnJump(s, case, os, oe, ns, ne) ==
  CASE case = "down" -> _moveViews(s, ns - os, 1)
    [] case = "up" -> _moveViews(s, oe - ne, -1)
    [] case = "unclassified" -> remeasure(s)
    [] OTHER -> s

\* The views moved or rebuilt for the branch taken.
UpdateViews(s, case, os, oe, ns, ne) ==
  CASE case = "down" -> _moveViews(s, ns - os, 1)
    [] case = "up" -> _moveViews(s, oe - ne, -1)
    [] case = "jump" -> remeasure(s)
    [] case = "unclassified" -> remeasure(s)
    [] OTHER -> s

\* _handleScroll from the two ranges on: the branch, the views, the buffers
\* and the load-more signal.
HandleRanges(s, os, oe, ns, ne) ==
  LET case == ScrollCase(os, oe, ns, ne)
      s1 == UpdateViews([s EXCEPT !.hist.case = case,
                                  !.hist.oldStart = os, !.hist.oldEnd = oe,
                                  !.hist.newStart = ns, !.hist.newEnd = ne],
                        case, os, oe, ns, ne)
      didMovedViews == case \in {"down", "up"}
      s2 == IF didMovedViews
              THEN updateBuffers([s1 EXCEPT !.repeat._first = ns], ns)
              ELSE s1
  IN IF ShouldCallScrollNext(s1, case, oe, ns, ne) # 0
       THEN _getMore(s2, ns, isNearTop(s2, ns), isNearBottom(s2, ne))
       ELSE s2

\* _handleScroll.  Its second parameter, prevScrollerInfo, is never read, and
\* neither are the fields _currScrollerInfo and _prevScrollerInfo it is taken
\* from: the model leaves the three out.
_handleScroll(s, currentScrollerInfo) ==
  IF ~s.repeat._isAttached THEN s
  ELSE IF s.repeat._skipNextScrollHandle
    THEN [s EXCEPT !.repeat._skipNextScrollHandle = FALSE]
  ELSE IF s.repeat.items = "null" THEN s
  ELSE IF s.repeat.strategy = "null" THEN [s EXCEPT !.hist.error = "typeError"]
  ELSE
    LET range == getViewRange(s, currentScrollerInfo)
    IN HandleRanges(s, s.repeat._first, _lastViewIndex(s), range[1], range[2])

\* _onScroll: the scroll listener
_onScroll(s) ==
  LET isHandlingMutations == s.repeat._handlingMutations
      s1 == IF ~s.repeat._ticking /\ ~isHandlingMutations
              THEN [queueMicroTask(s, MicroTask("scroll", getScrollerInfo(s), noSplice))
                    EXCEPT !.repeat._ticking = TRUE]
              ELSE s
  IN IF isHandlingMutations
       THEN [s1 EXCEPT !.repeat._handlingMutations = FALSE]
       ELSE s1

\* the microtask _onScroll queues
ScrollMicroTask(s, task) ==
  LET s1 == _handleScroll(s, task.curr)
  IN IF s1.hist.error # "none" THEN s1 ELSE [s1 EXCEPT !.repeat._ticking = FALSE]

\* ------------------------------------------------------ sizing observers
\* _unobserveScrollerSize
_unobserveScrollerSize(s) ==
  [s EXCEPT !.platform.resizeObservers =
               IF s.repeat._scrollerResizeObserver THEN @ - 1 ELSE @,
            !.platform.elementEvents = IF s.repeat._scrollerEvents THEN @ - 1 ELSE @,
            !.repeat._scrollerResizeObserver = FALSE,
            !.repeat._scrollerEvents = FALSE]

\* _observeScroller: a new resize observer and new size-event subscriptions,
\* the previous ones disconnected and disposed
_observeScroller(s) ==
  [s EXCEPT !.platform.resizeObservers =
               (IF s.repeat._scrollerResizeObserver THEN @ - 1 ELSE @) + 1,
            !.platform.elementEvents = (IF s.repeat._scrollerEvents THEN @ - 1 ELSE @) + 1,
            !.repeat._scrollerResizeObserver = TRUE,
            !.repeat._scrollerEvents = TRUE]

\* PLATFORM.global.clearInterval / setInterval; 1 is the sizing interval and 2
\* the distance-to-top interval, 0 no interval
clearInterval(s, handle) == [s EXCEPT !.platform.intervals = @ \ {handle}]
setInterval(s, handle) == [s EXCEPT !.platform.intervals = @ \cup {handle}]

\* ------------------------------------------------------------ itemsChanged
\* A variant of itemsChanged that goes on without a strategy; the property of
\* the source that is not iterable tells it from itemsChanged.
itemsChangedWithoutStrategyCheck(s) ==
  LET s0 == _unsubscribeCollection(s)
  IN IF ~s0.repeat.scope \/ ~s0.repeat._isAttached THEN s0
     ELSE
       LET s1 == [s0 EXCEPT !.repeat.strategy = getStrategy(s0.repeat.items),
                            !.hist.recompute = @ + 1]
           s2 == IF s1.dom.source = "oneTime" THEN s1
                 ELSE IF _observesInnerCollection(s1) THEN _observeInnerCollection(s1)
                 ELSE _observeCollection(s1)
           calculationSignals == initCalculationSignals(s2)
           s3 == instanceChanged(initCalculation(s2), s2.repeat._first)
           s4 == IF "reset" \in calculationSignals THEN _resetCalculation(s3) ELSE s3
           s5 == IF "has_sizing" \notin calculationSignals
                   THEN [setInterval(clearInterval(s4, s4.repeat._sizeInterval), 1)
                         EXCEPT !.repeat._sizeInterval = 1]
                   ELSE s4
       IN IF "observe_scroller" \in calculationSignals THEN _observeScroller(s5) ELSE s5

\* A variant of itemsChanged that asks the strategy for the window after the
\* current first index; the property of the repeated recompute tells it from
\* itemsChanged.
itemsChangedFromNextIndex(s) ==
  LET s0 == _unsubscribeCollection(s)
  IN IF ~s0.repeat.scope \/ ~s0.repeat._isAttached THEN s0
     ELSE IF getStrategy(s0.repeat.items) = "null"
       THEN [s0 EXCEPT !.repeat.strategy = "null", !.hist.error = "notIterable"]
     ELSE
       LET s1 == [s0 EXCEPT !.repeat.strategy = getStrategy(s0.repeat.items),
                            !.hist.recompute = @ + 1]
           s2 == IF s1.dom.source = "oneTime" THEN s1
                 ELSE IF _observesInnerCollection(s1) THEN _observeInnerCollection(s1)
                 ELSE _observeCollection(s1)
           calculationSignals == initCalculationSignals(s2)
           s3 == instanceChanged(initCalculation(s2), s2.repeat._first + 1)
           s4 == IF "reset" \in calculationSignals THEN _resetCalculation(s3) ELSE s3
           s5 == IF "has_sizing" \notin calculationSignals
                   THEN [setInterval(clearInterval(s4, s4.repeat._sizeInterval), 1)
                         EXCEPT !.repeat._sizeInterval = 1]
                   ELSE s4
       IN IF "observe_scroller" \in calculationSignals THEN _observeScroller(s5) ELSE s5

\* A variant of itemsChanged that observes the bound collection whether or not
\* it observes the inner one; the property of the collection subscription
\* tells it from itemsChanged.
itemsChangedObservesBoth(s) ==
  LET s0 == _unsubscribeCollection(s)
  IN IF ~s0.repeat.scope \/ ~s0.repeat._isAttached THEN s0
     ELSE IF getStrategy(s0.repeat.items) = "null"
       THEN [s0 EXCEPT !.repeat.strategy = "null", !.hist.error = "notIterable"]
     ELSE
       LET s1 == [s0 EXCEPT !.repeat.strategy = getStrategy(s0.repeat.items),
                            !.hist.recompute = @ + 1]
           s2 == IF s1.dom.source = "oneTime" THEN s1
                 ELSE _observeCollection(_observeInnerCollection(s1))
           calculationSignals == initCalculationSignals(s2)
           s3 == instanceChanged(initCalculation(s2), s2.repeat._first)
           s4 == IF "reset" \in calculationSignals THEN _resetCalculation(s3) ELSE s3
           s5 == IF "has_sizing" \notin calculationSignals
                   THEN [setInterval(clearInterval(s4, s4.repeat._sizeInterval), 1)
                         EXCEPT !.repeat._sizeInterval = 1]
                   ELSE s4
       IN IF "observe_scroller" \in calculationSignals THEN _observeScroller(s5) ELSE s5

\* itemsChanged.  Without a strategy for the items it throws.
itemsChanged(s) ==
  LET s0 == _unsubscribeCollection(s)
  IN IF ~s0.repeat.scope \/ ~s0.repeat._isAttached THEN s0
     ELSE IF getStrategy(s0.repeat.items) = "null"
       THEN [s0 EXCEPT !.repeat.strategy = "null", !.hist.error = "notIterable"]
     ELSE
       LET s1 == [s0 EXCEPT !.repeat.strategy = getStrategy(s0.repeat.items),
                            !.hist.recompute = @ + 1]
           s2 == IF s1.dom.source = "oneTime" THEN s1
                 ELSE IF _observesInnerCollection(s1) THEN _observeInnerCollection(s1)
                 ELSE _observeCollection(s1)
           calculationSignals == initCalculationSignals(s2)
           s3 == instanceChanged(initCalculation(s2), s2.repeat._first)
           s4 == IF "reset" \in calculationSignals THEN _resetCalculation(s3) ELSE s3
           s5 == IF "has_sizing" \notin calculationSignals
                   THEN [setInterval(clearInterval(s4, s4.repeat._sizeInterval), 1)
                         EXCEPT !.repeat._sizeInterval = 1]
                   ELSE s4
       IN IF "observe_scroller" \in calculationSignals THEN _observeScroller(s5) ELSE s5

\* the callback of the sizing interval; the platform counts its ticks (the
\* model keeps the parity of the count)
SizeIntervalTick(s0) ==
  LET s == [s0 EXCEPT !.platform.sizeTicks = 1 - @]
  IN IF s.repeat.items # "null"
       THEN IF viewCount(s) = 0 /\ s.repeat.strategy = "null"
              THEN [s EXCEPT !.hist.error = "typeError"]
              ELSE LET s1 == IF viewCount(s) = 0 THEN createFirstItem(s) ELSE s
                   IN IF s1.dom.itemOuterHeight > 0
                        THEN itemsChanged(clearInterval(s1, s1.repeat._sizeInterval))
                        ELSE s1
       ELSE clearInterval(s, s.repeat._sizeInterval)

\* the callback of the distance-to-top interval
DistanceIntervalTick(s) ==
  LET prevDistanceToTop == s.repeat.distanceToTop
      currDistanceToTop == s.dom.distance
      s1 == [s EXCEPT !.repeat.distanceToTop = currDistanceToTop]
  IN IF prevDistanceToTop # currDistanceToTop
       THEN _handleScroll(s1, getScrollerInfo(s1))
       ELSE s1

\* the callback of the resize observer
ResizeObserverCallback(s, newRect) ==
  LET oldRect == s.repeat._currScrollerContentRect
      s1 == [s EXCEPT !.repeat._currScrollerContentRect = newRect]
  IN IF oldRect = undefinedRect \/ newRect.height # oldRect.height
       THEN requestAnimationFrame(s1, FrameCallback("sizeChange", FALSE, FALSE, newRect))
       ELSE s1

\* the frame callback of sizeChangeHandler
SizeChangeFrame(s, newRect) ==
  IF newRect = s.repeat._currScrollerContentRect THEN itemsChanged(s) ELSE s

\* sizeChangeEventsHandler: the manual size events
sizeChangeEventsHandler(s) ==
  requestAnimationFrame(s, FrameCallback("sizeChangeEvent", FALSE, FALSE, undefinedRect))

\* ---------------------------------------------------------------- lifecycle
\* bind: the scope, and the collection the binding assigns to items
bind(s) ==
  [s EXCEPT !.repeat.scope = TRUE,
            !.repeat.items = IF s.dom.iterable THEN "array" ELSE "value"]

\* unbind
unbind(s) == [s EXCEPT !.repeat.scope = FALSE, !.repeat.items = "null"]

\* attached.  The strategy's onAttached hook, called last, is given no effect:
\* the contract of the strategy does not name it.  An error itemsChanged throws
\* ends the call.
attached(s) ==
  LET isFixedHeightContainer == s.dom.overflow
      s2 == itemsChanged(
              [s EXCEPT !.repeat._isAttached = TRUE,
                        !.repeat.scrollerEl = "container",
                        !.repeat._fixedHeightContainer = isFixedHeightContainer,
                        !.repeat.topBufferEl = "top",
                        !.repeat.bottomBufferEl = "bottom",
                        !.platform.buffers = @ + 1])
  IN IF s2.hist.error # "none" THEN s2
     ELSE IF isFixedHeightContainer
       THEN [s2 EXCEPT !.platform.listeners = @ \cup {"container"}]
       ELSE [setInterval(s2, 2) EXCEPT
               !.repeat.distanceToTop = IF viewCount(s2) = 0 THEN 0 ELSE s2.dom.distance,
               !.platform.listeners = @ \cup {"document"},
               !.repeat._calcDistanceToTopInterval = 2]

\* A variant of detached that leaves the sizing interval running; the property
\* of the detached state tells it from detached.
detachedKeepsSizeInterval(s) ==
  LET s1 == [s EXCEPT !.platform.listeners =
                         @ \ {IF s.dom.overflow THEN "container" ELSE "document"}]
      s2 == [_unobserveScrollerSize(s1) EXCEPT
               !.repeat._currScrollerContentRect = undefinedRect,
               !.repeat._isAttached = FALSE,
               !.repeat._fixedHeightContainer = FALSE]
      s3 == _resetCalculation(_unsubscribeCollection(s2))
      s4 == removeAllViews(
              [s3 EXCEPT !.platform.buffers = @ - 1,
                         !.repeat.topBufferEl = "null",
                         !.repeat.bottomBufferEl = "null",
                         !.repeat.scrollerEl = "null"])
      s5 == clearInterval(s4, s4.repeat._calcDistanceToTopInterval)
  IN [s5 EXCEPT !.repeat.distanceToTop = 0,
                !.repeat._sizeInterval = 0,
                !.repeat._calcDistanceToTopInterval = 0]

\* detached
detached(s) ==
  LET s1 == [s EXCEPT !.platform.listeners =
                         @ \ {IF s.dom.overflow THEN "container" ELSE "document"}]
      s2 == [_unobserveScrollerSize(s1) EXCEPT
               !.repeat._currScrollerContentRect = undefinedRect,
               !.repeat._isAttached = FALSE,
               !.repeat._fixedHeightContainer = FALSE]
      s3 == _resetCalculation(_unsubscribeCollection(s2))
      s4 == removeAllViews(
              [s3 EXCEPT !.platform.buffers = @ - 1,
                         !.repeat.topBufferEl = "null",
                         !.repeat.bottomBufferEl = "null",
                         !.repeat.scrollerEl = "null"])
      s5 == clearInterval(clearInterval(s4, s4.repeat._calcDistanceToTopInterval),
                          s4.repeat._sizeInterval)
  IN [s5 EXCEPT !.repeat.distanceToTop = 0,
                !.repeat._sizeInterval = 0,
                !.repeat._calcDistanceToTopInterval = 0]

\* ------------------------------------------------------------- mutations
\* A variant of instanceMutated that leaves the window at its index when items
\* are added before it; the property of the insertion before the window tells
\* it from instanceMutated.
instanceMutatedKeepsFirst(s, splice) ==
  instanceChanged(s, s.repeat._first)

\* instanceMutated (patchForMutation): the window patched for one splice; a
\* splice before the window shifts it, and the window is kept inside the
\* collection.
instanceMutated(s, splice) ==
  LET first == s.repeat._first
      removedBefore == Math_min(splice.removedCount, Math_max(0, first - splice.index))
      delta == IF splice.index < first THEN splice.addedCount - removedBefore ELSE 0
  IN instanceChanged(s, first + delta)

\* handleCollectionMutated
handleCollectionMutated(s, changes) ==
  IF s.repeat._ignoreMutation THEN s
  ELSE instanceMutated([s EXCEPT !.repeat._handlingMutations = TRUE], changes)

\* What the evaluation of the source expression does to the array it reads: a
\* converter may leave it alone or remove an item from it.
SourceEffects == {"none", "remove"}

\* sourceExpression.evaluate: the array as the evaluation leaves it; its
\* observer queues the delivery of the change the evaluation made.
evaluate(s, effect) ==
  LET s1 == [s EXCEPT !.hist.evaluated = @ + 1]
  IN IF effect = "remove" /\ s1.dom.arrayLength > 0
       THEN LET splice == [index |-> s1.dom.arrayLength - 1, addedCount |-> 0,
                           removedCount |-> 1]
                s2 == [s1 EXCEPT !.dom.arrayLength = @ - 1]
            IN IF s2.platform.subscriptions # {}
                 THEN queueMicroTask(s2, MicroTask("collectionChange", undefinedInfo, splice))
                 ELSE s2
       ELSE s1

\* handleInnerCollectionMutated.  The evaluation returns the array the items
\* property holds, or one of the same items in its place: itemsChanged runs in
\* both branches.
handleInnerCollectionMutated(s, changes, effect) ==
  IF s.repeat._ignoreMutation THEN s
  ELSE
    LET s1 == evaluate([s EXCEPT !.repeat._ignoreMutation = TRUE], effect)
        s2 == queueMicroTask(s1, MicroTask("ignoreMutation", undefinedInfo, noSplice))
    IN itemsChanged(s2)

\* call: the collection observer delivers the splices to its subscriber, in
\* the context it subscribed with
call(s, changes, effect) ==
  IF "handleCollectionMutated" \in s.platform.subscriptions
    THEN handleCollectionMutated(s, changes)
  ELSE IF "handleInnerCollectionMutated" \in s.platform.subscriptions
    THEN handleInnerCollectionMutated(s, changes, effect)
  ELSE s

\* ---------------------------------------------------------------- load more
\* A variant of executeGetMore that resolves the handler without looking for
\* the first view; the property of the callbacks that run after a detach tells
\* it from executeGetMore.
executeGetMoreWithoutFirstView(s, cb, result) ==
  LET s1 == [s EXCEPT !.repeat._calledGetMore = TRUE]
      func == s1.dom.scrollNext
      invoked == [s1 EXCEPT !.hist.invoked = @ + 1,
                            !.hist.overlap = (s1.promises.then + s1.promises.bare > 0)]
  IN CASE func = "absent" -> [s1 EXCEPT !.repeat._calledGetMore = FALSE]
       [] func = "function" ->
            IF result = "promise"
              THEN [invoked EXCEPT !.promises.then = @ + 1]
              ELSE [invoked EXCEPT !.repeat._calledGetMore = FALSE]
       [] func = "expression" ->
            [invoked EXCEPT !.repeat._calledGetMore = FALSE,
                            !.promises.bare = IF result = "promise" THEN @ + 1 ELSE @]
       [] func = "notFunction" -> [s1 EXCEPT !.hist.error = "notCallable"]

\* A variant of executeGetMore that leaves the in-flight flag set when it
\* resolves no handler; the property of the missing handler tells it from
\* executeGetMore.
executeGetMoreKeepsFlag(s, cb, result) ==
  LET s1 == [s EXCEPT !.repeat._calledGetMore = TRUE]
      func == IF viewCount(s1) > 0 THEN s1.dom.scrollNext ELSE "absent"
      invoked == [s1 EXCEPT !.hist.invoked = @ + 1,
                            !.hist.overlap = (s1.promises.then + s1.promises.bare > 0)]
  IN CASE func = "absent" -> s1
       [] func = "function" ->
            IF result = "promise"
              THEN [invoked EXCEPT !.promises.then = @ + 1]
              ELSE [invoked EXCEPT !.repeat._calledGetMore = FALSE]
       [] func = "expression" ->
            [invoked EXCEPT !.repeat._calledGetMore = FALSE,
                            !.promises.bare = IF result = "promise" THEN @ + 1 ELSE @]
       [] func = "notFunction" -> [s1 EXCEPT !.hist.error = "notCallable"]

\* A variant of executeGetMore that takes an attribute that names no function
\* for a missing one; the property of the attribute that is not callable tells
\* it from executeGetMore.
executeGetMoreIgnoresNotFunction(s, cb, result) ==
  LET s1 == [s EXCEPT !.repeat._calledGetMore = TRUE]
      func == IF viewCount(s1) > 0 THEN s1.dom.scrollNext ELSE "absent"
      invoked == [s1 EXCEPT !.hist.invoked = @ + 1,
                            !.hist.overlap = (s1.promises.then + s1.promises.bare > 0)]
  IN CASE func \in {"absent", "notFunction"} -> [s1 EXCEPT !.repeat._calledGetMore = FALSE]
       [] func = "function" ->
            IF result = "promise"
              THEN [invoked EXCEPT !.promises.then = @ + 1]
              ELSE [invoked EXCEPT !.repeat._calledGetMore = FALSE]
       [] func = "expression" ->
            [invoked EXCEPT !.repeat._calledGetMore = FALSE,
                            !.promises.bare = IF result = "promise" THEN @ + 1 ELSE @]

\* executeGetMore, the frame callback of _getMore.  `result` is what the handler
\* returns when it is invoked: "value" or "promise".
executeGetMore(s, cb, result) ==
  LET s1 == [s EXCEPT !.repeat._calledGetMore = TRUE]
      func == IF viewCount(s1) > 0 THEN s1.dom.scrollNext ELSE "absent"
      invoked == [s1 EXCEPT !.hist.invoked = @ + 1,
                            !.hist.overlap = (s1.promises.then + s1.promises.bare > 0)]
  IN CASE func = "absent" -> [s1 EXCEPT !.repeat._calledGetMore = FALSE]
       [] func = "function" ->
            IF result = "promise"
              THEN [invoked EXCEPT !.promises.then = @ + 1]
              ELSE [invoked EXCEPT !.repeat._calledGetMore = FALSE]
       [] func = "expression" ->
            [invoked EXCEPT !.repeat._calledGetMore = FALSE,
                            !.promises.bare = IF result = "promise" THEN @ + 1 ELSE @]
       [] func = "notFunction" -> [s1 EXCEPT !.hist.error = "notCallable"]

\* The promise a handler returned settles; only a promise returned by a function
\* handler has a reaction, and only for its fulfilment.
PromiseSettled(s, kind, outcome) ==
  IF kind = "then"
    THEN IF outcome = "fulfilled"
           THEN [s EXCEPT !.promises.then = @ - 1, !.repeat._calledGetMore = FALSE]
           ELSE [s EXCEPT !.promises.then = @ - 1]
    ELSE [s EXCEPT !.promises.bare = @ - 1]

\* one callback of an animation frame
FrameCallbackRun(s, cb, result) ==
  CASE cb.type = "executeGetMore" -> executeGetMore(s, cb, result)
    [] cb.type = "revertScrollCheckGuard" -> [s EXCEPT !.repeat._ticking = FALSE]
    [] cb.type = "sizeChange" -> SizeChangeFrame(s, cb.rect)
    [] cb.type = "sizeChangeEvent" -> itemsChanged(s)

\* one microtask of the task queue
MicroTaskRun(s, task, effect) ==
  CASE task.type = "scroll" -> ScrollMicroTask(s, task)
    [] task.type = "collectionChange" -> call(s, task.splice, effect)
    [] task.type = "ignoreMutation" -> [s EXCEPT !.repeat._ignoreMutation = FALSE]

\* ------------------------------------------------------------------- Init
\* The instance after its constructor, in a document whose layout is drawn
\* from the sizes above.
InitRepeat ==
  [_first |-> 0, _viewsLength |-> 0, _topBufferHeight |-> 0, _bottomBufferHeight |-> 0,
   _isAttached |-> FALSE, _ticking |-> FALSE, _fixedHeightContainer |-> FALSE,
   _isAtTop |-> TRUE, _calledGetMore |-> FALSE, _skipNextScrollHandle |-> FALSE,
   _handlingMutations |-> FALSE, _ignoreMutation |-> FALSE,
   items |-> "null", scope |-> FALSE, strategy |-> "null",
   scrollerEl |-> "null", topBufferEl |-> "null", bottomBufferEl |-> "null",
   _sizeInterval |-> 0, _calcDistanceToTopInterval |-> 0,
   edgeDistance |-> EdgeDistance, itemHeight |-> 0, distanceToTop |-> 0, elementsInView |-> 0,
   _scrollerResizeObserver |-> FALSE, _scrollerEvents |-> FALSE,
   _currScrollerContentRect |-> undefinedRect,
   collectionObserver |-> "null", callContext |-> "null"]

\* The document of the transition scenario: nothing but the scroll position
\* changes in it.
ScenarioDom ==
  [scrollTop |-> 0, height |-> Scenario.height, itemOuterHeight |-> Scenario.itemHeight,
   overflow |-> TRUE, distance |-> 0, arrayLength |-> Scenario.itemCount,
   iterable |-> TRUE, scrollNext |-> "function", source |-> "direct",
   changes |-> NoChanges]

InScenario == dom.arrayLength = Scenario.itemCount

InitPlatform ==
  [listeners |-> {}, intervals |-> {}, resizeObservers |-> 0, elementEvents |-> 0,
   subscriptions |-> {}, buffers |-> 0, sizeTicks |-> 0, frameScrolls |-> 0]

InitHist == StepHist("init")

Init ==
  /\ repeat = InitRepeat
  /\ views = << >>
  /\ \/ \E o \in BOOLEAN, k \in ScrollNextKinds, b \in SourceKinds, c \in Changes,
            n \in {0, MaxItems} :
          /\ ~o => c = "layout"
          /\ b = "inner" => c = "mutation"
          /\ b = "oneTime" => c = "resize"
          /\ k # "absent" => (o /\ c = "layout")
          /\ c \in {"mutation", "replacement"} => n = MaxItems
          /\ dom = [scrollTop |-> 0, height |-> InitialViewportHeight,
                 itemOuterHeight |-> InitialItemOuterHeight, overflow |-> o,
                 distance |-> 0, arrayLength |-> n, iterable |-> TRUE,
                 scrollNext |-> k, source |-> b, changes |-> c]
     \/ dom = ScenarioDom
  /\ platform = InitPlatform
  /\ taskQueue = << >>
  /\ flushing = FALSE
  /\ frames = << >>
  /\ frameBatch = << >>
  /\ promises = [then |-> 0, bare |-> 0]
  /\ hist = InitHist

\* --------------------------------------------------------------- the steps
\* Nothing of the controller is running: no flush of the task queue and no
\* animation frame is under way.
Idle == ~flushing /\ frameBatch = << >>
\* and the task queue is empty, so that a task of the event loop can start
Quiet == Idle /\ taskQueue = << >>

\* The step to state s keeps the bounds.
Bounded(s) ==
  /\ Len(s.frames) <= MaxFrames
  /\ s.promises.then + s.promises.bare <= MaxPromises

Step(s) == Bounded(s) /\ Become(s) /\ UNCHANGED <<flushing, frameBatch>>

Bind ==
  /\ Idle /\ ~repeat.scope /\ ~repeat._isAttached
  /\ Step(bind(Begin(Cur, "env")))

Unbind ==
  /\ Idle /\ repeat.scope /\ ~repeat._isAttached
  /\ Step(unbind(Begin(Cur, "env")))

Attached ==
  /\ Idle /\ repeat.scope /\ ~repeat._isAttached
  /\ Step(attached(Begin(Cur, "attached")))

Detached ==
  /\ Idle /\ repeat._isAttached
  /\ Step(detached(Begin(Cur, "detached")))

\* The scroller is scrolled to scrollTop t; the listener on it, if any, is called.
Scroll(t) ==
  /\ Idle
  /\ t \in (IF InScenario THEN Scenario.scrollTops ELSE ScrollTops)
  /\ LET s == [Begin(Cur, "scrollEvent") EXCEPT !.dom.scrollTop = t]
         target == IF s.dom.overflow THEN "container" ELSE "document"
     IN Step(IF target \in s.platform.listeners THEN _onScroll(s) ELSE s)

\* The bound array is mutated by one splice; its observer, when it has a
\* subscriber, queues the delivery of the splice.
MutateArray(index, added, removed) ==
  /\ dom.changes = "mutation"
  /\ Idle /\ repeat.items # "null"
  /\ added + removed > 0 /\ added * removed = 0
  /\ removed <= dom.arrayLength
  /\ index \in {0, dom.arrayLength - removed}
  /\ dom.arrayLength - removed + added <= MaxItems
  /\ \A i \in 1..Len(taskQueue) : taskQueue[i].type # "collectionChange"
  /\ LET s == [Begin(Cur, "env") EXCEPT !.dom.arrayLength = @ - removed + added]
         splice == [index |-> index, addedCount |-> added, removedCount |-> removed]
     IN Step(IF s.platform.subscriptions # {}
               THEN queueMicroTask(s, MicroTask("collectionChange", undefinedInfo, splice))
               ELSE s)

\* Another value is assigned to the bound items property: an array of n items,
\* or a value that is not iterable (the model keeps the length of the last
\* array beside it).
ItemsReplaced(n, iterable) ==
  /\ dom.changes = "replacement"
  /\ Quiet /\ repeat.scope
  /\ IF iterable THEN n # dom.arrayLength \/ ~dom.iterable
                 ELSE n = dom.arrayLength /\ dom.iterable
  /\ Step(itemsChanged([Begin(Cur, "itemsChanged") EXCEPT
                          !.dom.arrayLength = n, !.dom.iterable = iterable,
                          !.repeat.items = IF iterable THEN "array" ELSE "value"]))

\* The task queue runs its oldest microtask; the flush goes on until the queue
\* is empty.
RunMicroTask ==
  /\ taskQueue # << >>
  /\ LET task == Head(taskQueue)
     IN \E effect \in SourceEffects :
          LET s == MicroTaskRun([Begin(Cur, task.type) EXCEPT !.taskQueue = Tail(@)],
                                task, effect)
          IN /\ Bounded(s) /\ Become(s)
             /\ flushing' = (s.taskQueue # << >>)
             /\ UNCHANGED frameBatch

\* An animation frame: the callbacks requested before it run one after the
\* other, the microtasks each one queues running before the next.
RunFrameCallback ==
  /\ ~flushing /\ taskQueue = << >>
  /\ frameBatch # << >> \/ frames # << >>
  /\ LET batch == IF frameBatch # << >> THEN frameBatch ELSE frames
         rest == IF frameBatch # << >> THEN frames ELSE << >>
         cb == Head(batch)
     IN \E result \in {"value", "promise"} :
          LET s == FrameCallbackRun([Begin(Cur, cb.type) EXCEPT !.frames = rest], cb, result)
          IN /\ Bounded(s) /\ Become(s)
             /\ frameBatch' = Tail(batch)
             /\ UNCHANGED flushing

\* The sizing interval fires.
SizeInterval ==
  /\ Quiet /\ 1 \in platform.intervals
  /\ Step(SizeIntervalTick(Begin(Cur, "sizeInterval")))

\* The distance-to-top interval fires.
DistanceInterval ==
  /\ Quiet /\ 2 \in platform.intervals
  /\ Step(DistanceIntervalTick(Begin(Cur, "distanceInterval")))

\* The layout changes: the first item becomes measurable or not, the list moves
\* in the document.
Layout(h, d) ==
  /\ dom.changes = "layout"
  /\ Quiet
  /\ <<h, d>> # <<dom.itemOuterHeight, dom.distance>>
  /\ dom.overflow => d = dom.distance
  /\ Step([Begin(Cur, "env") EXCEPT !.dom.itemOuterHeight = h, !.dom.distance = d])

\* The content rect of a resize notification is a new object: it carries an
\* id no rect the controller or a waiting callback holds carries.
NewRectId(s) ==
  LET used == {s.repeat._currScrollerContentRect.id}
                \cup {s.frames[i].rect.id : i \in 1..Len(s.frames)}
  IN CHOOSE id \in 1..(Len(s.frames) + 2) :
       id \notin used /\ \A j \in 1..(id - 1) : j \in used

\* The scroller gets height vh; a connected resize observer reports it with a
\* new content rect.
Resize(vh) ==
  /\ dom.changes = "resize"
  /\ Quiet
  /\ LET s == [Begin(Cur, "env") EXCEPT !.dom.height = vh]
     IN Step(IF s.platform.resizeObservers > 0
               THEN ResizeObserverCallback(s, [id |-> NewRectId(s), height |-> vh])
               ELSE s)

\* A manual size event is dispatched on the scroller.
SizeEvent ==
  /\ dom.changes = "resize"
  /\ Quiet /\ platform.elementEvents > 0
  /\ Step(sizeChangeEventsHandler(Begin(Cur, "env")))

\* A promise returned by the load-more handler settles.
Settle(kind, outcome) ==
  /\ Quiet
  /\ promises[kind] > 0
  /\ Step(PromiseSettled(Begin(Cur, "env"), kind, outcome))

Next ==
  \/ Bind
  \/ Unbind
  \/ Attached
  \/ Detached
  \/ \E t \in ScrollTops \cup Scenario.scrollTops : Scroll(t)
  \/ \E i \in 0..MaxItems, a \in 0..MaxSplice, r \in 0..MaxSplice : MutateArray(i, a, r)
  \/ \E n \in 0..MaxItems, it \in BOOLEAN : ItemsReplaced(n, it)
  \/ RunMicroTask
  \/ RunFrameCallback
  \/ SizeInterval
  \/ DistanceInterval
  \/ \E h \in ItemOuterHeights, d \in Distances : Layout(h, d)
  \/ \E vh \in ViewportHeights : Resize(vh)
  \/ SizeEvent
  \/ \E k \in {"then", "bare"}, o \in {"fulfilled", "rejected"} : Settle(k, o)

Spec == Init /\ [][Next]_vars

\* ------------------------------------------------ the transition on its own
\* The transition of _handleScroll as a function of the two ranges: the
\* controller is attached over MaxItems items, holds the views of an arbitrary
\* old range, and is handed an arbitrary new range.
RangePairs == {r \in (0..(MaxItems - 1)) \X (0..(MaxItems - 1)) : r[1] <= r[2]}

\* The same over a collection long enough to have items near its top only,
\* near its bottom only and near neither: the ranges in the stretch of
\* MaxItems items that spans the middle of a collection of FarItems items.
FarItems == 2 * EdgeDistance + MaxItems - 1
FarRangePairs ==
  LET stretch == (EdgeDistance - 1)..(EdgeDistance + MaxItems - 2)
  IN {r \in stretch \X stretch : r[1] <= r[2]}

Constructed ==
  [repeat |-> InitRepeat, views |-> << >>,
   dom |-> [scrollTop |-> 0, height |-> InitialViewportHeight,
            itemOuterHeight |-> InitialItemOuterHeight, overflow |-> TRUE,
            distance |-> 0, arrayLength |-> MaxItems, iterable |-> TRUE,
            scrollNext |-> "function", source |-> "direct", changes |-> NoChanges],
   platform |-> InitPlatform, taskQueue |-> << >>, frames |-> << >>,
   promises |-> [then |-> 0, bare |-> 0], hist |-> InitHist]

StartsAs(s) ==
  /\ repeat = s.repeat
  /\ views = s.views
  /\ dom = s.dom
  /\ platform = s.platform
  /\ taskQueue = s.taskQueue
  /\ frames = s.frames
  /\ promises = s.promises
  /\ hist = s.hist
  /\ flushing = FALSE
  /\ frameBatch = << >>

InitRanges ==
  \E old \in RangePairs \cup FarRangePairs :
    LET n == IF old \in RangePairs THEN MaxItems ELSE FarItems
        s == attached(bind([Constructed EXCEPT !.dom.arrayLength = n]))
    IN StartsAs([s EXCEPT !.repeat._first = old[1],
                          !.views = Consecutive(old[1], old[2] - old[1] + 1),
                          !.frames = << >>,
                          !.hist = InitHist])

HandleRange(ns, ne) ==
  Step(HandleRanges(Begin(Cur, "scroll"), repeat._first, _lastViewIndex(Cur), ns, ne))

NextRanges ==
  \E new \in RangePairs \cup FarRangePairs :
    /\ new \in RangePairs <=> dom.arrayLength = MaxItems
    /\ HandleRange(new[1], new[2])

SpecRanges == InitRanges /\ [][NextRanges]_vars

\* ------------------------------------------------- the sizing interval
\* The controller over MaxItems items in a fixed-height container whose first
\* item is measurable at some times and not at others.  The platform fires an interval as long as it
\* is set and runs the animation frames requested: the sizing interval and the
\* frame callbacks are scheduled fairly.
InitPolling ==
  /\ Init
  /\ dom.changes = "layout" /\ dom.overflow /\ dom.scrollNext = "absent"
  /\ dom.arrayLength = MaxItems

NextPolling ==
  \/ Bind
  \/ Unbind
  \/ Attached
  \/ Detached
  \/ RunFrameCallback
  \/ SizeInterval
  \/ \E h \in ItemOuterHeights, d \in Distances : Layout(h, d)

SpecPolling ==
  /\ InitPolling /\ [][NextPolling]_vars
  /\ WF_vars(SizeInterval) /\ WF_vars(RunFrameCallback)

\* ------------------------------------------------- the animation frames
\* The controller over MaxItems items in a fixed-height container that is
\* scrolled, with the animation frames of the platform made visible: a frame
\* begins by taking the callbacks requested so far, whether there are any or
\* not, and the platform counts the scroll notifications _handleScroll has
\* handled as far as the two ranges since the last frame began (2 stands for
\* two or more).
MaxCounted == 2

CountScroll(s) ==
  IF s.hist.op = "scroll" /\ s.hist.case # "none"
    THEN [s EXCEPT !.platform.frameScrolls = Math_min(@ + 1, MaxCounted)]
    ELSE s

InitFrames ==
  /\ Init
  /\ dom.changes = "layout" /\ dom.overflow /\ dom.scrollNext = "absent"
  /\ dom.arrayLength = MaxItems

\* The task queue runs its oldest microtask, as in RunMicroTask.
RunMicroTaskInFrame ==
  /\ taskQueue # << >>
  /\ LET task == Head(taskQueue)
     IN \E effect \in SourceEffects :
          LET s == CountScroll(
                     MicroTaskRun([Begin(Cur, task.type) EXCEPT !.taskQueue = Tail(@)],
                                  task, effect))
          IN /\ Bounded(s) /\ Become(s)
             /\ flushing' = (s.taskQueue # << >>)
             /\ UNCHANGED frameBatch

\* An animation frame begins.
AnimationFrame ==
  /\ Quiet
  /\ platform.frameScrolls > 0 \/ frames # << >>
  /\ platform' = [platform EXCEPT !.frameScrolls = 0]
  /\ frameBatch' = frames
  /\ frames' = << >>
  /\ hist' = StepHist("env")
  /\ UNCHANGED <<repeat, views, dom, taskQueue, flushing, promises>>

\* The next callback of the frame that has begun.
RunCallbackOfFrame == frameBatch # << >> /\ RunFrameCallback

NextFrames ==
  \/ Bind
  \/ Attached
  \/ Detached
  \/ \E t \in ScrollTops : Scroll(t)
  \/ RunMicroTaskInFrame
  \/ AnimationFrame
  \/ RunCallbackOfFrame

SpecFrames == InitFrames /\ [][NextFrames]_vars

\* ------------------------------------------------- the overflow style
\* The controller over MaxItems items in a container whose overflow style the
\* application changes while the controller lives: hasOverflowScroll, which
\* attached() and detached() each ask, answers for the style of the moment.
InitOverflow ==
  /\ Init
  /\ dom.changes = "layout" /\ dom.scrollNext = "absent"
  /\ dom.arrayLength = MaxItems

\* The overflow style of the container is set: scrolling (o) or not.
SetOverflow(o) ==
  /\ Idle
  /\ o # dom.overflow
  /\ Step([Begin(Cur, "env") EXCEPT !.dom.overflow = o])

NextOverflow ==
  \/ Bind
  \/ Unbind
  \/ Attached
  \/ Detached
  \/ \E o \in BOOLEAN : SetOverflow(o)
  \/ \E t \in ScrollTops : Scroll(t)
  \/ RunMicroTask
  \/ RunFrameCallback
  \/ DistanceInterval

SpecOverflow == InitOverflow /\ [][NextOverflow]_vars

\* ----------------------------------------------------------- the claims
\* The conditions of the transition table, each taken on its own, in the order
\* of the table.
TableCases == <<"pinned_bottom", "pinned_top", "down", "up", "jump">>

TableCondition(c, os, oe, ns, ne) ==
  CASE c = "pinned_bottom" -> ns >= os /\ oe = ne
    [] c = "pinned_top" -> ne = oe /\ oe >= ne
    [] c = "down" -> ns > os /\ oe >= ns /\ ne >= oe
    [] c = "up" -> os > ns /\ os <= ne /\ oe >= ne
    [] c = "jump" -> oe < ns \/ os > ne

\* the rows of the table the ranges of the last transition satisfy
Matching ==
  {i \in DOMAIN TableCases :
     TableCondition(TableCases[i], hist.oldStart, hist.oldEnd, hist.newStart, hist.newEnd)}

FirstMatching ==
  IF Matching = {} THEN "unclassified"
  ELSE TableCases[CHOOSE i \in Matching : \A j \in Matching : i <= j]

\* a transition has been made by the last step
Transitioned == hist.op = "scroll" /\ hist.case # "none"

\* the views the last transition moved and the rebuilds it asked for, as the
\* table gives them for the case
ActionOfCase(c) ==
  CASE c = "down" -> hist.moved = hist.newStart - hist.oldStart /\ hist.remeasure = 0
    [] c = "up" -> hist.moved = hist.oldEnd - hist.newEnd /\ hist.remeasure = 0
    [] c \in {"jump", "unclassified"} -> hist.moved = 0 /\ hist.remeasure = 1
    [] OTHER -> hist.moved = 0 /\ hist.remeasure = 0

\* C1 (as amended): for every old and every new range, _handleScroll takes the
\* first row of the transition table, in the order of the table, whose
\* condition the two ranges satisfy (unclassified when none does), and performs
\* the action of that row and of no other.
C1_FirstMatchingCase ==
  Transitioned => hist.case = FirstMatching /\ ActionOfCase(FirstMatching)

\* C1, witness: a transition whose ranges satisfy the conditions of two rows,
\* handled as the first of them.
C1_Witness ==
  Transitioned /\ Cardinality(Matching) >= 2 /\ hist.case = FirstMatching

\* C1, as stated: no pair of ranges satisfies the conditions of two cases.
C1_ExactlyOneCondition == Transitioned => Cardinality(Matching) <= 1

\* the buffers as the strategy computes them for a window starting at first
BuffersFor(first) ==
  /\ repeat'._topBufferHeight = first * repeat'.itemHeight
  /\ repeat'._bottomBufferHeight =
       Math_max(0, dom'.arrayLength - first - repeat'._viewsLength) * repeat'.itemHeight

\* the step handles the scroll notification taken at scrollTop top
HandlesScrollAt(top) ==
  /\ taskQueue # << >>
  /\ Head(taskQueue).type = "scroll"
  /\ Head(taskQueue).curr.scrollTop = top
  /\ hist'.op = "scroll" /\ hist'.case # "none"

\* C2: in the scroll-down-overlapping case _handleScroll moves newStart -
\* oldStart views from the head of the rendered set to the tail, with the
\* indices that follow the previous last index, sets _first to newStart and
\* recomputes the buffers; with 1000 items of height 20 in a viewport of 400,
\* the scroll from 0 to 100 takes this case, moves 5 views and leaves _first = 5.
C2_ScrollDownOverlapping ==
  [][/\ (hist'.op = "scroll" /\ hist'.case = "down") =>
          LET k == hist'.newStart - hist'.oldStart
          IN /\ hist'.moved = k
             /\ k > 0 /\ k <= Len(views)
             /\ views' = SubSeq(views, k + 1, Len(views))
                            \o Consecutive(views[Len(views)] + 1, k)
             /\ repeat'._first = hist'.newStart
             /\ BuffersFor(hist'.newStart)
     /\ (InScenario /\ HandlesScrollAt(100) /\ views = Consecutive(0, 20)
           /\ repeat._first = 0) =>
          /\ hist'.case = "down"
          /\ hist'.moved = 5
          /\ repeat'._first = 5
          /\ views' = Consecutive(5, 20)]_vars

\* C2, witness: the scenario's scroll from 0 to 100 has been handled as the
\* scroll-down-overlapping case.
C2_Witness ==
  /\ InScenario /\ Transitioned /\ hist.case = "down"
  /\ hist.oldStart = 0 /\ hist.newStart = 5 /\ hist.moved = 5
  /\ repeat._first = 5 /\ views = Consecutive(5, 20)

Disjoint == hist.oldEnd < hist.newStart \/ hist.oldStart > hist.newEnd

\* C4 (as amended): when the old rendered range and the new visible range are
\* disjoint and do not end at the same index, _handleScroll asks the strategy
\* for one remeasure and moves no view through _moveViews.
C4_DisjointJumpRemeasures ==
  (Transitioned /\ Disjoint /\ hist.oldEnd # hist.newEnd) =>
    hist.case = "jump" /\ hist.remeasure = 1 /\ hist.moved = 0

\* C4, as stated: whenever oldEnd < newStart or oldStart > newEnd,
\* _handleScroll asks for one remeasure.
C4_EveryDisjointPairRemeasures ==
  (Transitioned /\ Disjoint) => hist.remeasure = 1 /\ hist.moved = 0

\* C4, witness: the scenario's scroll from the top to item 500 has been
\* handled by one remeasure.
C4_Witness ==
  /\ InScenario /\ Transitioned /\ hist.case = "jump"
  /\ hist.oldStart = 0 /\ hist.newStart = 500
  /\ hist.remeasure = 1 /\ hist.moved = 0 /\ views = Consecutive(500, 20)

\* C5, as stated: the load-more handler is never invoked while the deferred
\* result of an earlier invocation is pending.
C5_OneInvocationInFlight == ~hist.overlap

\* C6, as stated: with a function for a handler, the in-flight flag is set
\* only while the deferred result of the handler is pending; it is cleared when
\* the result completes, whether it succeeds or fails.
C6_FlagClearedOnCompletion ==
  (repeat._calledGetMore /\ dom.scrollNext = "function") => promises.then > 0

\* no mutation of the array awaits its delivery to the controller
Delivered == \A i \in DOMAIN taskQueue : taskQueue[i].type # "collectionChange"

C8_WindowInsideCollection ==
  Delivered =>
    repeat._first >= 0 /\ repeat._first + Len(views) <= dom.arrayLength

\* C9: when detached() has returned, the controller is not attached, the window
\* fields are 0, no collection subscription is held, the two intervals are
\* cleared, the resize observer and the size-event subscriptions are disposed,
\* and no rendered view remains.
C9_DetachedState ==
  hist.op = "detached" =>
    /\ ~repeat._isAttached
    /\ repeat._first = 0 /\ repeat._viewsLength = 0
    /\ repeat._topBufferHeight = 0 /\ repeat._bottomBufferHeight = 0
    /\ repeat.itemHeight = 0 /\ repeat.elementsInView = 0
    /\ repeat.collectionObserver = "null" /\ platform.subscriptions = {}
    /\ repeat._calcDistanceToTopInterval = 0 /\ repeat._sizeInterval = 0
    /\ platform.intervals = {}
    /\ ~repeat._scrollerResizeObserver /\ platform.resizeObservers = 0
    /\ ~repeat._scrollerEvents /\ platform.elementEvents = 0
    /\ views = << >>

\* C9, witness: detached() has returned while a scroll notification taken from
\* the attached controller is still to be handled.
C9_Witness ==
  /\ hist.op = "detached" /\ ~repeat._isAttached /\ views = << >>
  /\ taskQueue # << >> /\ Head(taskQueue).type = "scroll"

\* the callbacks that may be pending at a detach
PendingCallbacks == {"scroll", "sizeChange", "sizeChangeEvent", "executeGetMore"}

\* C10: a scroll microtask, a resize frame callback, a size-event frame
\* callback or a load-more frame callback that runs while the controller is
\* detached changes none of the window fields and no rendered view, installs
\* no subscription, observer, listener or timer, and invokes no load-more
\* handler.
C10_CallbacksAfterDetach ==
  [][(~repeat._isAttached /\ hist'.op \in PendingCallbacks) =>
       /\ Window(repeat', views') = Window(repeat, views)
       /\ platform' = platform
       /\ hist'.invoked = 0]_vars

\* C10, witness: a load-more callback scheduled before the detach has run
\* after it, with a handler bound, and has invoked nothing.
C10_Witness ==
  /\ hist.op = "executeGetMore" /\ ~repeat._isAttached
  /\ dom.scrollNext = "function" /\ hist.invoked = 0

\* the state a first attach produces on the source and the scroller at hand:
\* attached() on an instance fresh from its constructor and bound
FirstAttach ==
  attached(bind(Begin([Cur EXCEPT !.repeat = InitRepeat, !.views = << >>,
                                  !.platform = InitPlatform, !.taskQueue = << >>,
                                  !.frames = << >>], "attached")))

\* the last step was attached(), and it followed a detach: the instance has
\* callbacks of its earlier attachment waiting
Reattached ==
  /\ hist.op = "attached" /\ repeat._isAttached
  /\ taskQueue # << >> \/ \E i \in DOMAIN frames : frames[i].type \in PendingCallbacks

\* C11, the part that holds: the window attached() leaves is the window a first
\* attach on the same source and scroller leaves, whatever was pending.
C11_ReattachIsFirstAttach ==
  hist.op = "attached" =>
    Window(repeat, views) = Window(FirstAttach.repeat, FirstAttach.views)

\* C11, as stated: a scroll, resize or load-more callback scheduled before the
\* detach leaves the fresh window of the reattach as it is when it runs after
\* the reattach.
C11_StaleCallbackKeepsFreshWindow ==
  [][(Reattached /\ hist'.op \in PendingCallbacks) =>
       Window(repeat', views') = Window(repeat, views)]_vars

\* the scroll listener is installed on the scroller
Listening == (IF dom.overflow THEN "container" ELSE "document") \in platform.listeners

\* the scroll microtasks waiting in a task queue
ScrollTasks(q) == {i \in DOMAIN q : q[i].type = "scroll"}

\* C12, the part that holds: however many scroll notifications reach _onScroll
\* before the task queue is flushed, one scroll microtask at most is waiting.
C12_OneComputationPerBurst == Cardinality(ScrollTasks(taskQueue)) <= 1

\* C12, as stated: when a scroll notification has reached _onScroll, the scroll
\* microtask that is waiting holds the snapshot taken at that notification, the
\* most recent one.
C12_MostRecentSnapshot ==
  [][(Listening /\ hist'.op = "scrollEvent") =>
       \A i \in ScrollTasks(taskQueue') :
         taskQueue'[i].curr.scrollTop = dom'.scrollTop]_vars

\* the step ran _handleScroll as far as the two ranges
HandlesScroll == hist'.op \in {"scroll", "distanceInterval"} /\ hist'.case # "none"

\* C13, the part that holds: a scroll notification that reaches _onScroll
\* while the mutation-in-progress flag is set queues no scroll microtask and
\* clears the flag.
C13_NotificationSwallowed ==
  [][(Listening /\ repeat._handlingMutations /\ hist'.op = "scrollEvent") =>
       taskQueue' = taskQueue /\ ~repeat'._handlingMutations]_vars

\* C13, as stated: from the moment handleCollectionMutated sets
\* _handlingMutations until the flag is cleared, _handleScroll is not executed,
\* neither from a scroll microtask nor from the distance-to-top interval.
C13_NoScrollHandlingDuringMutation ==
  [][repeat._handlingMutations => ~HandlesScroll]_vars

\* the microtask handleInnerCollectionMutated queued to lower its guard is
\* still waiting
GuardPending == \E i \in DOMAIN taskQueue : taskQueue[i].type = "ignoreMutation"

\* C14, the part that holds: while the guard is up, a mutation notification
\* evaluates nothing, recomputes nothing and patches nothing.
C14_GuardedNotificationIgnored ==
  [][(repeat._ignoreMutation /\ hist'.op = "collectionChange") =>
       /\ hist'.evaluated = 0 /\ hist'.recompute = 0
       /\ Window(repeat', views') = Window(repeat, views)]_vars

\* C14, as stated: a mutation notification delivered after
\* handleInnerCollectionMutated accepted one and before the microtask it queued
\* has run is ignored: the source expression is not evaluated again and no
\* second recompute is started, whatever signals the first recompute returned.
C14_NestedNotificationsIgnored ==
  [][(GuardPending /\ hist'.op = "collectionChange") =>
       hist'.evaluated = 0 /\ hist'.recompute = 0]_vars

\* the frame callback the next step of the frame runs
RunningCallback == Head(IF frameBatch # << >> THEN frameBatch ELSE frames)

\* a resize frame callback waits in the frame that is running or in the next
SizeChangePending(fs, fb) ==
  \/ \E i \in DOMAIN fs : fs[i].type = "sizeChange"
  \/ \E i \in DOMAIN fb : fb[i].type = "sizeChange"

\* the step runs the frame callback of a size change that no report of another
\* size has followed: the size the resize observer reported last is its size,
\* and the window was computed for a size that shows another number of items
RunsLatestSizeChange ==
  /\ repeat._isAttached /\ repeat.scope
  /\ hist'.op = "sizeChange"
  /\ repeat._currScrollerContentRect # undefinedRect
  /\ RunningCallback.rect.height = repeat._currScrollerContentRect.height
  /\ repeat.itemHeight > 0
  /\ repeat.elementsInView # CeilDiv(RunningCallback.rect.height, repeat.itemHeight)

\* C15, the part that holds: a notification that repeats the size recorded
\* requests no frame callback.
C15_RepeatedSizeRequestsNothing ==
  [][(hist'.op = "env" /\ repeat._currScrollerContentRect # undefinedRect
        /\ repeat'._currScrollerContentRect # repeat._currScrollerContentRect
        /\ repeat'._currScrollerContentRect.height = repeat._currScrollerContentRect.height) =>
       frames' = frames]_vars

\* C15, as stated: the recompute owed for a size change is run by its frame
\* callback, or is still owed by a callback that waits, whatever notifications
\* of the same size were delivered in between.
C15_OwedRecomputeKept ==
  [][RunsLatestSizeChange =>
       hist'.recompute = 1 \/ SizeChangePending(frames', frameBatch')]_vars

\* C16: when the bound value is not iterable, itemsChanged on a bound and
\* attached controller throws 'Value is not iterateable for virtual repeat.',
\* and the call that throws sizes nothing, creates no view, installs no
\* collection subscription, resize observer, size-event subscription or timer
\* and leaves _first, _viewsLength and the buffer heights as they were.
C16_NotIterableRejected ==
  [][/\ (hist'.op \in {"itemsChanged", "attached"} /\ repeat'.scope
           /\ repeat'._isAttached /\ repeat'.items = "value") =>
          hist'.error = "notIterable"
     /\ hist'.error = "notIterable" =>
          /\ hist'.recompute = 0
          /\ Window(repeat', views') = Window(repeat, views)
          /\ repeat'.elementsInView = repeat.elementsInView
          /\ platform'.subscriptions \subseteq platform.subscriptions
          /\ platform'.intervals \subseteq platform.intervals
          /\ platform'.resizeObservers = platform.resizeObservers
          /\ platform'.elementEvents = platform.elementEvents]_vars

\* C16, witness: a value that is not iterable has been assigned to the items
\* of an attached controller with a window in the middle of its array;
\* itemsChanged has thrown and the window is as it was.
C16_Witness ==
  /\ hist.op = "itemsChanged" /\ hist.error = "notIterable"
  /\ repeat._isAttached /\ repeat.items = "value"
  /\ Len(views) > 0 /\ repeat._first > 0

\* C17: when the load-more callback runs and resolves no handler, because the
\* first view has no infinite-scroll-next attribute or because there is no
\* view, it invokes nothing, throws nothing and leaves _calledGetMore false.
C17_NoHandlerIsNoOp ==
  (hist.op = "executeGetMore" /\ (dom.scrollNext = "absent" \/ views = << >>)) =>
    hist.invoked = 0 /\ hist.error = "none" /\ ~repeat._calledGetMore

\* C17, witness: the load-more callback has run on an attached controller
\* whose first view has no infinite-scroll-next attribute.
C17_Witness ==
  /\ hist.op = "executeGetMore" /\ repeat._isAttached
  /\ views # << >> /\ dom.scrollNext = "absent"
  /\ hist.invoked = 0 /\ ~repeat._calledGetMore

\* C18: when the infinite-scroll-next attribute of the first view resolves
\* neither to a function of the binding context nor to a bound expression, the
\* load-more callback throws "'infinite-scroll-next' must be a function or
\* evaluate to one" and invokes no handler.
C18_NotCallableRejected ==
  (hist.op = "executeGetMore" /\ views # << >> /\ dom.scrollNext = "notFunction") =>
    hist.error = "notCallable" /\ hist.invoked = 0

\* C18, witness: the load-more callback has run over a first view whose
\* attribute names no function, and has thrown.
C18_Witness ==
  /\ hist.op = "executeGetMore" /\ views # << >> /\ dom.scrollNext = "notFunction"
  /\ hist.error = "notCallable" /\ hist.invoked = 0

\* the sizing interval is set
Polling == 1 \in platform.intervals

\* C19, the part that holds: a tick of the sizing interval that observes a
\* positive height clears the interval and reruns itemsChanged.
C19_PositiveHeightReruns ==
  [][(hist'.op = "sizeInterval" /\ repeat.items = "array"
        /\ dom.itemOuterHeight > 0) =>
       hist'.recompute = 1]_vars

\* C19, as stated: the polling is bounded; whenever the sizing interval is set,
\* it is cleared after finitely many ticks.
C19_PollingStops == Polling ~> ~Polling

\* the window of a state, with the number of items in view
WindowOf(s) == <<Window(s.repeat, s.views), s.repeat.elementsInView>>

\* itemsChanged run once, and run twice, from the state at hand
RecomputedOnce == itemsChanged(Begin(Cur, "itemsChanged"))
RecomputedTwice == itemsChanged(Begin(RecomputedOnce, "itemsChanged"))

\* C20: on an attached and bound controller, itemsChanged run twice in
\* succession leaves the window (_first, the views, _viewsLength, itemHeight and
\* the two buffer heights) the first run left, with or without the reset
\* signal: in every reachable state a second run would change nothing of the
\* window of the first, and a frame that runs two recomputes one after the
\* other leaves after the second the window of the first.
C20_RecomputeIdempotent ==
  [][/\ (repeat._isAttached /\ repeat.scope) =>
          WindowOf(RecomputedTwice) = WindowOf(RecomputedOnce)
     /\ (hist.op = "sizeChangeEvent" /\ hist.recompute = 1
           /\ hist'.op = "sizeChangeEvent") =>
          /\ hist'.recompute = 1
          /\ Window(repeat', views') = Window(repeat, views)]_vars

\* C20, witness: a recompute has run on a window in the middle of the
\* collection, and the next callback of the same frame is another recompute.
C20_Witness ==
  /\ hist.op = "sizeChangeEvent" /\ hist.recompute = 1
  /\ repeat._isAttached /\ repeat.scope
  /\ repeat._first > 0 /\ Len(views) > 0 /\ repeat.itemHeight > 0
  /\ frameBatch # << >> /\ Head(frameBatch).type = "sizeChangeEvent"

\* the step delivers to handleCollectionMutated a splice that adds k items at an
\* index before the window, and the window is still the one the controller
\* held for the collection as it was before the insertion
InsertsBeforeWindow(k) ==
  /\ taskQueue # << >>
  /\ repeat._topBufferHeight + Len(views) * repeat.itemHeight + repeat._bottomBufferHeight
       = (dom.arrayLength - k) * repeat.itemHeight
  /\ Head(taskQueue).type = "collectionChange"
  /\ Head(taskQueue).splice.addedCount = k /\ k > 0
  /\ Head(taskQueue).splice.removedCount = 0
  /\ Head(taskQueue).splice.index < repeat._first
  /\ "handleCollectionMutated" \in platform.subscriptions
  /\ ~repeat._ignoreMutation
  /\ hist'.op = "collectionChange"

NewEndNearBottom == hist.newEnd >= dom.arrayLength - 1 - repeat.edgeDistance
NewStartNearTop == hist.newStart <= repeat.edgeDistance

\* C22, the part that holds: an overlapping transition schedules a load-more
\* callback only when the new range is near one of the two edges.
C22_LoadMoreNearSomeEdge ==
  (Transitioned /\ hist.case \in {"down", "up"} /\ hist.scheduled > 0) =>
    NewEndNearBottom \/ NewStartNearTop

\* C22, as stated: a scroll-down-overlapping transition schedules a load-more
\* callback only when the new end index is near the bottom, and a
\* scroll-up-overlapping transition only when the new start index is near the
\* top.
C22_LoadMoreOnlyAtOwnEdge ==
  /\ (Transitioned /\ hist.case = "down" /\ hist.scheduled > 0) => NewEndNearBottom
  /\ (Transitioned /\ hist.case = "up" /\ hist.scheduled > 0) => NewStartNearTop

\* the ranges the step handled end at the same index
PinnedStep ==
  /\ hist'.op \in {"scroll", "distanceInterval"}
  /\ hist'.case # "none"
  /\ hist'.newEnd = hist'.oldEnd

\* C23: when the new range ends where the rendered range ends, _handleScroll
\* takes a pinned case, moves no view, asks for no remeasure and leaves the
\* views, _first and the two buffer heights as they were; it schedules
\* load-more only when newStart >= oldStart and the new end is within the edge
\* distance of the last item, or when newStart < oldStart and the new start is
\* within the edge distance of index 0.
C23_PinnedCases ==
  [][PinnedStep =>
       /\ hist'.case \in {"pinned_bottom", "pinned_top"}
       /\ hist'.moved = 0 /\ hist'.remeasure = 0
       /\ views' = views
       /\ repeat'._first = repeat._first
       /\ repeat'._topBufferHeight = repeat._topBufferHeight
       /\ repeat'._bottomBufferHeight = repeat._bottomBufferHeight
       /\ hist'.scheduled > 0 =>
            \/ /\ hist'.newStart >= hist'.oldStart
               /\ hist'.newEnd >= dom'.arrayLength - 1 - repeat'.edgeDistance
            \/ /\ hist'.newStart < hist'.oldStart
               /\ hist'.newStart <= repeat'.edgeDistance]_vars

\* C23, witness: a new range that ends with the rendered range near the
\* bottom and starts before it, away from the top, has been handled: nothing
\* was moved and no load-more was scheduled.
C23_Witness ==
  /\ Transitioned /\ hist.case = "pinned_top"
  /\ hist.newStart < hist.oldStart /\ hist.newEnd = hist.oldEnd
  /\ hist.newStart > repeat.edgeDistance
  /\ hist.newEnd >= dom.arrayLength - 1 - repeat.edgeDistance
  /\ hist.moved = 0 /\ hist.remeasure = 0 /\ hist.scheduled = 0
  /\ repeat._first = hist.oldStart

\* C24, the part that holds: a scroll microtask that runs while no mutation of
\* the array awaits its delivery, and every tick of the distance-to-top
\* interval, takes a pinned, an overlapping or a jump case.
C24_ClassifiedWhenDelivered ==
  [][(Delivered /\ hist'.op \in {"scroll", "distanceInterval"}) =>
       hist'.case # "unclassified"]_vars

\* C24, as stated: in no reachable state has _handleScroll taken the
\* unclassified branch.
C24_NeverUnclassified == hist.case # "unclassified"

\* C25, the part that holds: a scroll notification that reaches _onScroll
\* while a scroll microtask waits queues no second one.
C25_OnePerMicroTaskTurn ==
  [][(hist'.op = "scrollEvent" /\ ScrollTasks(taskQueue) # {}) =>
       taskQueue' = taskQueue]_vars

\* C25, as stated: between two consecutive animation frames _handleScroll
\* handles at most one scroll notification.
C25_OncePerFrame == platform.frameScrolls <= 1

\* the target attached() installed the scroll listener on
ListenerTarget == IF repeat._fixedHeightContainer THEN "container" ELSE "document"

\* C26, the part that holds: when the container has at detach the overflow
\* style it had at attach, detached() removes the listener attached()
\* installed.
C26_ListenerRemovedWhenStyleKept ==
  [][(hist'.op = "detached" /\ repeat._fixedHeightContainer = dom.overflow) =>
       ListenerTarget \notin platform'.listeners]_vars

\* C26, as stated: after detached() no scroll listener of the controller
\* remains on the container or on the document, however the overflow style of
\* the container changed between attach and detach.
C26_NoListenerAfterDetach == hist.op = "detached" => platform.listeners = {}

\* the rendered views carry consecutive $index values in slot order, and
\* _first is the $index of the first of them
ConsecutiveFromFirst ==
  /\ \A i \in 1..(Len(views) - 1) : views[i + 1] = views[i] + 1
  /\ views[1] = repeat._first

\* C27, the part that holds: in every state the attached controller reaches
\* through attach, scroll, resize and mutation events with a view rendered,
\* the views carry consecutive $index values and _first is the first of them.
C27_ConsecutiveWhenAttached ==
  (repeat._isAttached /\ views # << >>) => ConsecutiveFromFirst

\* C27, as stated: a scroll-down-overlapping or scroll-up-overlapping
\* transition from a rendered range with consecutive $index values that starts
\* at _first leaves consecutive $index values that start at _first, whatever
\* the lengths of the rendered range and of the new range.
C27_OverlappingKeepsInvariant ==
  (Transitioned /\ hist.case \in {"down", "up"}) => ConsecutiveFromFirst

\* a revertScrollCheckGuard callback requested by _resetCalculation waits for
\* the next animation frame
RevertPending(fs) == \E i \in DOMAIN fs : fs[i].type = "revertScrollCheckGuard"

\* C28, the part that holds: detached() leaves the scroll guard up and a
\* revertScrollCheckGuard callback requested, and the callback runs only when
\* no scroll microtask waits.
C28_ResetRaisesGuard ==
  [][/\ hist'.op = "detached" => (repeat'._ticking /\ RevertPending(frames'))
     /\ hist'.op = "revertScrollCheckGuard" => ScrollTasks(taskQueue) = {}]_vars

\* C28, as stated: from _resetCalculation until the animation frame that runs
\* revertScrollCheckGuard, no scroll notification that reaches _onScroll is
\* accepted for handling.
C28_NoScrollAcceptedBeforeFrame ==
  [][(RevertPending(frames) /\ hist'.op = "scrollEvent") =>
       taskQueue' = taskQueue]_vars

\* C29: the controller holds at most one collection subscription, the one its
\* collectionObserver and callContext fields name; it is the subscription to
\* the inner collection when the source expression has one and to the bound
\* collection otherwise, never both; a one-time binding holds none; a detached
\* or unbound controller holds none.
C29_OneSubscription ==
  /\ Cardinality(platform.subscriptions) <= 1
  /\ platform.subscriptions =
       (IF repeat.collectionObserver = "null" THEN {} ELSE {repeat.callContext})
  /\ dom.source = "inner" => platform.subscriptions \subseteq {"handleInnerCollectionMutated"}
  /\ dom.source = "direct" => platform.subscriptions \subseteq {"handleCollectionMutated"}
  /\ dom.source = "oneTime" => platform.subscriptions = {}
  /\ (~repeat._isAttached \/ ~repeat.scope) => platform.subscriptions = {}

\* C29, witness: a notification of the inner collection has been delivered to
\* a controller subscribed to it; the recompute it ran has dropped that
\* subscription and holds one subscription to the inner collection again.
C29_Witness ==
  /\ hist.op = "collectionChange" /\ hist.recompute = 1 /\ hist.evaluated = 1
  /\ dom.source = "inner" /\ repeat._isAttached
  /\ platform.subscriptions = {"handleInnerCollectionMutated"}
  /\ repeat.callContext = "handleInnerCollectionMutated"

====
